---------------------------- MODULE Spec2Model ----------------------------
(***************************************************************************)
(* Model of tools/python/maps_generator/generator/exceptions.py:           *)
(* wait_and_raise_if_fail(p) and the process handle it inspects.           *)
(*                                                                         *)
(* Text (Python str) is a sequence of code points, bytes are sequences of  *)
(* integers 0..255.  A Python exception is the name of its class.          *)
(***************************************************************************)
EXTENDS Integers, Sequences, FiniteSets, TLC

VARIABLES
    p,          \* the process handle passed to wait_and_raise_if_fail
    proc,       \* "running" or "exited": the state of the child process
    returncode, \* the exit status wait() returns once the process has exited
    pc,         \* position of the call: "idle", "waiting", "returned", "raised"
    exc,        \* class of the exception the last call raised, or "none"
    msg,        \* str(exception) of the last call (empty when there is none)
    branch,     \* branch of line 38 the last call took: "A", "B" or "-"
    log,        \* accesses the current call made to the handle, in order
    calls,      \* number of calls started so far
    pre,        \* the handle as it was when the current call started
    args0,      \* the handle's argument list at construction
    sections    \* executable/argument section of each BadExitStatusError
                \* message raised so far, oldest first

vars == <<p, proc, returncode, pc, exc, msg, branch, log, calls, pre, args0,
          sections>>

----------------------------------------------------------------------------
(* Bounds of the model *)

MaxArgs == 3

MaxCalls == 3

(* Program constants *)

EX_OK == 0

ReadLimit == 256

----------------------------------------------------------------------------
(* String literals of the source, as code points *)

LaunchOf == <<84, 104, 101, 32, 108, 97, 117, 110, 99, 104, 32, 111, 102, 32>>

FailedArgs == <<32, 102, 97, 105, 108, 101, 100, 46, 10, 65, 114, 103, 117, 109,
                101, 110, 116, 115, 32, 117, 115, 101, 100, 58, 32>>

SeeDetails == <<10, 83, 101, 101, 32, 100, 101, 116, 97, 105, 108, 115, 32, 105,
                110, 32>>

AndSep == <<32, 97, 110, 100, 32>>

Space == <<32>>

NoneText == <<78, 111, 110, 101>>

----------------------------------------------------------------------------
(* Python values: None and str *)

None == [isNone |-> TRUE, text |-> <<>>]

Str(t) == [isNone |-> FALSE, text |-> t]

\* format(v) inside an f-string: str is itself, None is "None"
FormatValue(v) == IF v.isNone THEN NoneText ELSE v.text

Min(a, b) == IF a < b THEN a ELSE b

----------------------------------------------------------------------------
(* Streams: io.BufferedReader.read(n) and bytes.decode() *)

\* Mutant of Read: read() without the size, everything up to end of file
ReadAll(s, n) ==
    [chunk  |-> SubSeq(s.buf, s.pos + 1, Len(s.buf)),
     stream |-> [s EXCEPT !.pos = Len(s.buf)]]

\* read(n): at most n bytes from the current position, which advances
Read(s, n) ==
    LET k == Min(n, Len(s.buf) - s.pos)
    IN  [chunk  |-> SubSeq(s.buf, s.pos + 1, s.pos + k),
         stream |-> [s EXCEPT !.pos = @ + k]]

IsCont(b) == b >= 128 /\ b <= 191

\* Number of bytes of the UTF-8 sequence that starts bs[i], 0 when bs[i]
\* does not start a well-formed sequence that lies wholly inside bs.
SeqLen(bs, i) ==
    LET b  == bs[i]
        n  == Len(bs)
        c1 == IF i + 1 <= n THEN bs[i + 1] ELSE 0
        c2 == IF i + 2 <= n THEN bs[i + 2] ELSE 0
        c3 == IF i + 3 <= n THEN bs[i + 3] ELSE 0
    IN  IF b <= 127 THEN 1
        ELSE IF b >= 194 /\ b <= 223
            THEN (IF IsCont(c1) THEN 2 ELSE 0)
        ELSE IF b >= 224 /\ b <= 239
            THEN (IF /\ IsCont(c1) /\ IsCont(c2)
                     /\ (b = 224 => c1 >= 160)
                     /\ (b = 237 => c1 <= 159)
                  THEN 3 ELSE 0)
        ELSE IF b >= 240 /\ b <= 244
            THEN (IF /\ IsCont(c1) /\ IsCont(c2) /\ IsCont(c3)
                     /\ (b = 240 => c1 >= 144)
                     /\ (b = 244 => c1 <= 143)
                  THEN 4 ELSE 0)
        ELSE 0

CodePoint(bs, i, n) ==
    IF n = 1 THEN bs[i]
    ELSE IF n = 2 THEN (bs[i] - 192) * 64 + (bs[i + 1] - 128)
    ELSE IF n = 3 THEN (bs[i] - 224) * 4096 + (bs[i + 1] - 128) * 64
                       + (bs[i + 2] - 128)
    ELSE (bs[i] - 240) * 262144 + (bs[i + 1] - 128) * 4096
         + (bs[i + 2] - 128) * 64 + (bs[i + 3] - 128)

\* bytes.decode(): strict UTF-8.  ok = FALSE stands for UnicodeDecodeError.
\* UTF-8 is self-synchronising: a character starts at every byte that is not
\* a continuation byte, so the input is well formed exactly when every such
\* byte starts a well-formed sequence and every continuation byte lies inside
\* the sequence of a start byte before it.
Decode(bs) ==
    LET n == Len(bs)
        IsStart(i) == ~IsCont(bs[i])
        Covered(i) == \E j \in 1..n : /\ j < i
                                      /\ i - j <= 3
                                      /\ IsStart(j)
                                      /\ j + SeqLen(bs, j) > i
        ok == \A i \in 1..n :
                 IF IsStart(i) THEN SeqLen(bs, i) > 0 ELSE Covered(i)
        starts == SelectSeq([i \in 1..n |-> i], IsStart)
    IN  IF ok
        THEN [ok |-> TRUE,
              text |-> [k \in 1..Len(starts) |->
                          CodePoint(bs, starts[k], SeqLen(bs, starts[k]))]]
        ELSE [ok |-> FALSE, text |-> <<>>]

RECURSIVE Join(_, _)
\* sep.join(xs)
Join(sep, xs) ==
    IF xs = <<>> THEN <<>>
    ELSE IF Len(xs) = 1 THEN xs[1]
    ELSE xs[1] \o sep \o Join(sep, Tail(xs))


----------------------------------------------------------------------------
(* wait_and_raise_if_fail, lines 36-58 *)

\* Mutant of Failed: the comparison inverted
FailedInverted(code) == code = EX_OK

\* line 37: p.wait() != os.EX_OK
Failed(code) == code # EX_OK

\* Mutant of IsPopen: isinstance(p, subprocess.Popen)
IsInstancePopen(h) == h.cls \in {"Popen", "PopenSubclass"}

\* line 38: type(p) is subprocess.Popen
IsPopen(h) == h.cls = "Popen"

\* Mutant of PopFirst: args[0], the list left as it is
PopKeep(args) == [head |-> Head(args), rest |-> args]

\* Mutant of PopFirst: args.pop(), which takes the last element
PopLast(args) ==
    [head |-> args[Len(args)], rest |-> SubSeq(args, 1, Len(args) - 1)]

\* lines 50, 57: args.pop(0) removes and returns the first element
PopFirst(args) == [head |-> Head(args), rest |-> Tail(args)]

\* Mutant of Differ: the second reference is always added
AlwaysDiffer(errors, logs) == TRUE

\* lines 48, 55: the test that decides whether the second reference is added
Differ(errors, logs) == errors # logs

\* lines 49, 56: logs += " and " + errors; str + None and None + str raise
AddSecond(logs, errors) ==
    IF logs.isNone \/ errors.isNone
    THEN [exc |-> "TypeError", val |-> logs]
    ELSE [exc |-> "none", val |-> Str(logs.text \o AndSep \o errors.text)]

\* The frame of a call: the handle, the locals logs and errors, the exception
\* raised so far, the message, the branch taken and the accesses made.
Frame(h) ==
    [h |-> h, logs |-> None, errors |-> None, exc |-> "none", msg |-> <<>>,
     branch |-> "-", log |-> <<"wait">>]

Touch(f, names) == [f EXCEPT !.log = @ \o names]

\* lines 44-45: logs = stdout.read(256).decode() unless stdout is None
ReadLogs(f) ==
    IF ~f.h.stdout.present THEN f
    ELSE LET r == Read(f.h.stdout, ReadLimit)
             d == Decode(r.chunk)
         IN  [f EXCEPT !.h.stdout = r.stream,
                       !.log = Append(@, "stdout.read"),
                       !.logs = IF d.ok THEN Str(d.text) ELSE @,
                       !.exc = IF d.ok THEN @ ELSE "UnicodeDecodeError"]

\* lines 46-47: errors = stderr.read(256).decode() unless stderr is None
ReadErrors(f) ==
    IF f.exc # "none" \/ ~f.h.stderr.present THEN f
    ELSE LET r == Read(f.h.stderr, ReadLimit)
             d == Decode(r.chunk)
         IN  [f EXCEPT !.h.stderr = r.stream,
                       !.log = Append(@, "stderr.read"),
                       !.errors = IF d.ok THEN Str(d.text) ELSE @,
                       !.exc = IF d.ok THEN @ ELSE "UnicodeDecodeError"]

\* lines 48-49: if errors != logs: logs += " and " + errors
Combine(f) ==
    IF f.exc # "none" \/ ~Differ(f.errors, f.logs) THEN f
    ELSE LET c == AddSecond(f.logs, f.errors)
         IN  [f EXCEPT !.logs = c.val, !.exc = c.exc]

\* lines 50-51 and 57-58: the f-string pops the executable, joins what is
\* left, formats logs; then BadExitStatusError(msg) is raised
Format(f) ==
    IF f.exc # "none" THEN f
    ELSE IF f.h.args = <<>>
    THEN [f EXCEPT !.exc = "IndexError", !.log = Append(@, "args.pop")]
    ELSE LET a == PopFirst(f.h.args)
         IN  [f EXCEPT !.h.args = a.rest,
                       !.log = Append(@, "args.pop"),
                       !.msg = LaunchOf \o a.head \o FailedArgs
                               \o Join(Space, a.rest) \o SeeDetails
                               \o FormatValue(f.logs),
                       !.exc = "BadExitStatusError"]

\* lines 39-51
PopenBranch(f) ==
    Format(Combine(ReadErrors(ReadLogs(
        Touch([f EXCEPT !.branch = "A"], <<"args", "stdout", "stderr">>)))))

\* line 54: logs = p.output.name
OutputName(f) ==
    IF ~f.h.hasOutput
    THEN [f EXCEPT !.exc = "AttributeError", !.log = Append(@, "output")]
    ELSE [f EXCEPT !.logs = Str(f.h.output.name),
                   !.log = @ \o <<"output", "output.name">>]

\* lines 55-56: if p.error.name != logs: logs += " and " + p.error.name
ErrorName(f) ==
    IF f.exc # "none" THEN f
    ELSE LET e  == Str(f.h.error.name)
             f1 == Touch(f, <<"error", "error.name">>)
         IN  IF ~Differ(e, f.logs) THEN f1
             ELSE LET c == AddSecond(f.logs, e)
                  IN  [f1 EXCEPT !.logs = c.val, !.exc = c.exc,
                                 !.log = @ \o <<"error", "error.name">>]

\* lines 53-58
OtherBranch(f) ==
    Format(ErrorName(OutputName(
        Touch([f EXCEPT !.branch = "B"], <<"args">>))))

\* lines 36-58: what the call does once wait() has returned code
Body(h, code) ==
    IF ~Failed(code) THEN Frame(h)
    ELSE IF IsPopen(h) THEN PopenBranch(Frame(h))
    ELSE OtherBranch(Frame(h))

----------------------------------------------------------------------------
(* The handles and exit statuses the model draws from *)

ArgVals == {<<97>>, <<98>>, <<>>}

RECURSIVE SeqsUpTo(_, _)
SeqsUpTo(S, n) ==
    IF n = 0 THEN {<<>>}
    ELSE LET shorter == SeqsUpTo(S, n - 1)
         IN  shorter \cup {Append(s, x) : s \in shorter, x \in S}

ArgLists == SeqsUpTo(ArgVals, MaxArgs)

\* A launched command names its executable
Commands == {a \in ArgLists : a # <<>> /\ Head(a) # <<>>}

Fill(n) == [i \in 1..n |-> 97]

Tails == {<<>>, <<97>>, <<97, 98>>, <<195, 169>>}

Contents == {Fill(n) \o t : n \in {0, ReadLimit - 1}, t \in Tails}

Absent == [present |-> FALSE, buf |-> <<>>, pos |-> 0, closed |-> FALSE]

Pipe(bs) == [present |-> TRUE, buf |-> bs, pos |-> 0, closed |-> FALSE]

Streams == {Absent} \cup {Pipe(bs) : bs \in Contents}

\* The streams of the handles that take the branch that reads no stream
SubclassStreams == {Absent, Pipe(<<97>>)}

Names == {<<111, 46, 108, 111, 103>>, <<101, 46, 108, 111, 103>>}

LogFile(n) == [name |-> n, buf |-> <<97>>, pos |-> 0, closed |-> FALSE]

Classes == {"Popen", "PopenSubclass", "FileBacked"}

ExitStatuses == {0, 1, -9}

Handles ==
    {[cls |-> "Popen", args |-> a, stdout |-> so, stderr |-> se,
      hasOutput |-> FALSE, output |-> LogFile(<<>>), error |-> LogFile(<<>>)]
        : a \in Commands, so \in Streams, se \in Streams}
    \cup
    {[cls |-> "PopenSubclass", args |-> a, stdout |-> so, stderr |-> se,
      hasOutput |-> ho, output |-> LogFile(IF ho THEN n ELSE <<>>),
      error |-> LogFile(IF ho THEN n ELSE <<>>)]
        : a \in Commands, so \in SubclassStreams, se \in SubclassStreams,
          ho \in BOOLEAN, n \in {<<111, 46, 108, 111, 103>>}}
    \cup
    {[cls |-> "FileBacked", args |-> a, stdout |-> Absent, stderr |-> Absent,
      hasOutput |-> TRUE, output |-> LogFile(no), error |-> LogFile(ne)]
        : a \in Commands \cup {<<>>}, no \in Names, ne \in Names}

----------------------------------------------------------------------------
(* The state machine *)

\* The text of a message before its first "\nSee details in ": the part
\* that names the executable and the arguments used
SectionOf(m) ==
    LET n  == Len(SeeDetails)
        ks == {k \in 1..(Len(m) - n + 1) : SubSeq(m, k, k + n - 1) = SeeDetails}
        k0 == CHOOSE k \in ks : \A j \in ks : k <= j
    IN  IF ks = {} THEN m ELSE SubSeq(m, 1, k0 - 1)

Init ==
    /\ p \in Handles
    /\ proc = "running"
    /\ returncode = EX_OK
    /\ pc = "idle"
    /\ exc = "none"
    /\ msg = <<>>
    /\ branch = "-"
    /\ log = <<>>
    /\ calls = 0
    /\ pre = p
    /\ args0 = p.args
    /\ sections = <<>>

\* The child process terminates with some exit status
ProcessExit(code) ==
    /\ proc = "running"
    /\ proc' = "exited"
    /\ returncode' = code
    /\ UNCHANGED <<p, pc, exc, msg, branch, log, calls, pre, args0, sections>>

\* line 36-37: the caller enters wait_and_raise_if_fail(p), which calls
\* p.wait() and blocks there
Call ==
    /\ pc # "waiting"
    /\ calls < MaxCalls
    /\ pc' = "waiting"
    /\ calls' = calls + 1
    /\ pre' = p
    /\ log' = <<"wait">>
    /\ exc' = "none"
    /\ msg' = <<>>
    /\ branch' = "-"
    /\ UNCHANGED <<p, proc, returncode, args0, sections>>

\* lines 37-58: wait() returns the exit status and the rest of the function
\* runs to its return or raise
Complete ==
    /\ pc = "waiting"
    /\ proc = "exited"
    /\ LET f == Body(p, returncode)
       IN  /\ p' = f.h
           /\ exc' = f.exc
           /\ msg' = f.msg
           /\ branch' = f.branch
           /\ log' = f.log
           /\ pc' = IF f.exc = "none" THEN "returned" ELSE "raised"
           /\ sections' = IF f.exc = "BadExitStatusError"
                           THEN Append(sections, SectionOf(f.msg))
                           ELSE sections
    /\ UNCHANGED <<proc, returncode, calls, pre, args0>>

Next ==
    \/ \E code \in ExitStatuses : ProcessExit(code)
    \/ Call
    \/ Complete

Spec == Init /\ [][Next]_vars

TypeOK ==
    /\ proc \in {"running", "exited"}
    /\ pc \in {"idle", "waiting", "returned", "raised"}
    /\ exc \in {"none", "BadExitStatusError", "TypeError", "IndexError",
                "AttributeError", "UnicodeDecodeError"}
    /\ branch \in {"-", "A", "B"}
    /\ calls \in 0..MaxCalls
    /\ returncode \in ExitStatuses
    /\ p.cls \in Classes
    /\ Len(sections) \in 0..calls

----------------------------------------------------------------------------
(* Vocabulary of the properties *)

Done == pc \in {"returned", "raised"}

NonSuccess == returncode # EX_OK

Raised == exc = "BadExitStatusError"

\* Shape A: a subprocess.Popen; Shape B: a handle with output and error
ShapeA(h) == h.cls = "Popen"

ShapeB(h) == h.cls # "Popen" /\ h.hasOutput

\* The bytes of stream s from its position on, at most ReadLimit of them
Unread(s) == SubSeq(s.buf, s.pos + 1, Min(Len(s.buf), s.pos + ReadLimit))

\* The stream s once those bytes are consumed
Advanced(s) ==
    IF s.present THEN [s EXCEPT !.pos = @ + Len(Unread(s))] ELSE s

\* The message up to and including "See details in "
Header(exe, rest) ==
    LaunchOf \o exe \o FailedArgs \o Join(Space, rest) \o SeeDetails

HasHeader(m, exe, rest) ==
    LET h == Header(exe, rest)
    IN  Len(m) >= Len(h) /\ SubSeq(m, 1, Len(h)) = h

\* One reference when both are the same, otherwise both joined by " and "
References(first, second) ==
    IF first = second THEN first ELSE first \o AndSep \o second

Reads(l) == {i \in 1..Len(l) : l[i] \in {"stdout.read", "stderr.read"}}

Waits(l) == {i \in 1..Len(l) : l[i] = "wait"}

\* Number of calls so far that raised BadExitStatusError
nraised == Len(sections)

----------------------------------------------------------------------------
(* The claims *)

\* C1: for a handle of either shape, a finished call has raised
\* BadExitStatusError if and only if the exit status differs from EX_OK, and
\* has raised no other kind of error.
C1_RaisedIffNonSuccess ==
    (Done /\ (ShapeA(pre) \/ ShapeB(pre)))
        => /\ Raised <=> NonSuccess
           /\ exc \in {"none", "BadExitStatusError"}

\* C2: when wait() returns EX_OK the call returns normally, raises nothing
\* and leaves the handle as it was: the argument list is intact, no stream
\* was read and neither output nor error was accessed (wait() is the only
\* access made).
C2_SuccessReturnsUntouched ==
    (Done /\ ~NonSuccess)
        => /\ pc = "returned"
           /\ exc = "none"
           /\ msg = <<>>
           /\ p = pre
           /\ log = <<"wait">>

C2_Witness ==
    /\ pc = "returned"
    /\ ~NonSuccess
    /\ ShapeA(pre)
    /\ pre.stdout.present /\ pre.stderr.present
    /\ Len(pre.stdout.buf) > ReadLimit
    /\ Len(pre.args) >= 2

\* C3: a Shape-A handle with a non-success status and a non-empty argument
\* list ends in BadExitStatusError whose message is "The launch of <args[0]>
\* failed.\nArguments used: <args[1..] joined by single spaces>\nSee details
\* in <log reference>", with args as they were before the call.
C3_ShapeAMessageForm ==
    (Done /\ ShapeA(pre) /\ NonSuccess /\ pre.args # <<>>)
        => /\ Raised
           /\ HasHeader(msg, Head(pre.args), Tail(pre.args))

\* C4: for a Shape-A handle with a non-success status and both streams
\* present, with out and err the text decoded from at most the first 256
\* unread bytes of stdout and stderr, BadExitStatusError is raised exactly
\* when the argument list is non-empty and both chunks decode, and then the
\* log reference of the message is out alone when out = err and
\* out + " and " + err otherwise; later bytes have no influence.
C4_StreamReferences ==
    (Done /\ ShapeA(pre) /\ NonSuccess
          /\ pre.stdout.present /\ pre.stderr.present)
        => LET out == Decode(Unread(pre.stdout))
               err == Decode(Unread(pre.stderr))
           IN  /\ Raised <=> (pre.args # <<>> /\ out.ok /\ err.ok)
               /\ Raised =>
                    msg = Header(Head(pre.args), Tail(pre.args))
                          \o References(out.text, err.text)

\* Streams that differ only after their first 256 bytes give one reference
C4_Witness ==
    /\ Done /\ Raised /\ ShapeA(pre)
    /\ pre.stdout.present /\ pre.stderr.present
    /\ Len(pre.stdout.buf) - pre.stdout.pos > ReadLimit
    /\ pre.stdout.buf # pre.stderr.buf
    /\ msg = Header(Head(pre.args), Tail(pre.args))
             \o Decode(Unread(pre.stderr)).text

\* C5: a Shape-A handle with a non-success status of which stdout, stderr or
\* both are None still ends in BadExitStatusError, not in a secondary error.
C5_AbsentStreamStillRaises ==
    (Done /\ ShapeA(pre) /\ NonSuccess
          /\ (~pre.stdout.present \/ ~pre.stderr.present))
        => Raised

\* C6: for a Shape-B handle with a non-success status, BadExitStatusError is
\* raised exactly when the argument list is non-empty, and then the log
\* reference of the message is the output name alone when the error name
\* equals it and "<output name> and <error name>" otherwise; the contents
\* of the destinations are not read.
C6_NameReferences ==
    (Done /\ ShapeB(pre) /\ NonSuccess)
        => /\ Raised <=> pre.args # <<>>
           /\ Raised =>
                msg = Header(Head(pre.args), Tail(pre.args))
                      \o References(pre.output.name, pre.error.name)
           /\ p.output = pre.output
           /\ p.error = pre.error
           /\ Reads(log) = {}

C6_Witness ==
    /\ Done /\ Raised /\ pre.cls = "FileBacked"
    /\ pre.output.name # pre.error.name
    /\ Len(pre.args) >= 2

\* C7 as claimed: on a non-success status every handle that offers an
\* argument list, wait() and stdout/stderr is processed as Shape A and every
\* handle that offers output/error is processed as Shape B, whatever its
\* runtime type.
C7_CapabilityProbe ==
    (Done /\ NonSuccess)
        => /\ (pre.cls \in {"Popen", "PopenSubclass"}
                 /\ pre.stdout.present /\ pre.stderr.present) => branch = "A"
           /\ (pre.hasOutput /\ pre.cls = "FileBacked") => branch = "B"

\* C7 amended: on a non-success status the branch is chosen by the exact
\* runtime type: a handle whose type is subprocess.Popen itself takes the
\* Shape-A branch, every other handle takes the Shape-B branch, and there a
\* handle without output/error ends in AttributeError with nothing changed.
C7_ExactTypeDispatch ==
    (Done /\ NonSuccess)
        => /\ branch = "A" <=> pre.cls = "Popen"
           /\ branch = "B" <=> pre.cls # "Popen"
           /\ (pre.cls # "Popen" /\ ~pre.hasOutput)
                => (exc = "AttributeError" /\ p = pre)

C7_Witness ==
    /\ Done /\ NonSuccess
    /\ pre.cls = "PopenSubclass"
    /\ pre.stdout.present /\ pre.stderr.present
    /\ ~pre.hasOutput
    /\ branch = "B"
    /\ exc = "AttributeError"

\* C8: a call invokes wait() once and before any other access, has not
\* finished while the process runs, and once finished has either returned
\* normally or raised BadExitStatusError.
C8_WaitOnceTwoOutcomes ==
    /\ pc # "idle" => (log[1] = "wait" /\ Cardinality(Waits(log)) = 1)
    /\ Done => proc = "exited"
    /\ Done => (pc = "returned" /\ exc = "none") \/ (pc = "raised" /\ Raised)

\* C9: after a call that raised BadExitStatusError the argument list is the
\* one before the call without its first element, each present stream of a
\* Shape-A handle is advanced by min(256, bytes remaining), and nothing else
\* of the handle has changed (no stream is closed).
C9_OnlyPopAndAdvance ==
    (Done /\ Raised)
        => /\ pre.args # <<>>
           /\ p.args = Tail(pre.args)
           /\ ShapeA(pre) =>
                p = [pre EXCEPT !.args = Tail(@),
                                !.stdout = Advanced(@),
                                !.stderr = Advanced(@)]
           /\ ~ShapeA(pre) => p = [pre EXCEPT !.args = Tail(@)]

C9_Witness ==
    /\ Done /\ Raised /\ ShapeA(pre)
    /\ pre.stdout.present /\ pre.stderr.present
    /\ Len(pre.stdout.buf) - pre.stdout.pos > ReadLimit
    /\ Len(pre.stderr.buf) - pre.stderr.pos \in 1..(ReadLimit - 1)
    /\ p.stdout.pos = pre.stdout.pos + ReadLimit
    /\ p.stderr.pos = Len(pre.stderr.buf)
    /\ Len(pre.args) >= 2

\* C10 as claimed, the k-th call: with a non-success status and n
\* arguments the k-th successive call (1 <= k <= n) reports the original
\* argument k-1 as the executable and the original arguments from k on as
\* the arguments used, and a call on an empty argument list fails with an
\* error other than BadExitStatusError.
C10_KthCallReportsKth ==
    (Done /\ NonSuccess)
        => /\ calls <= Len(args0) =>
                /\ Raised
                /\ HasHeader(msg, args0[calls],
                             SubSeq(args0, calls + 1, Len(args0)))
           /\ pre.args = <<>> => exc \notin {"none", "BadExitStatusError"}

============================================================================
